---------------------------- MODULE Spec2Model ----------------------------
(***************************************************************************)
(* stock_movers.py: one run of main().                                     *)
(*                                                                         *)
(* get_stock_changes() walks STOCKS, asks the data provider for one day of *)
(* one-minute bars per ticker, keeps the bars between market_open and      *)
(* ten_am, appends one record per ticker that has at least two such bars,  *)
(* then ranks the records by |Change %| and keeps the first five.  main()  *)
(* prints the table and hands it to send_email(), which opens one SMTP     *)
(* session.                                                                *)
(*                                                                         *)
(* Time is in seconds.  A bar's timestamp t is its US/Eastern wall-clock   *)
(* second of the run date; the instant it denotes is t + utcoffset         *)
(* seconds of UTC, where utcoffset is the offset of US/Eastern on the run  *)
(* date (EST or EDT).  Prices are small naturals; "Change %" is kept as    *)
(* the unreduced fraction num/den, with den = 0 standing for the IEEE-754  *)
(* results of a float64 division by zero (num # 0: inf, num = 0: NaN).     *)
(* Integer prices make every float64 operation but the division exact.     *)
(*                                                                         *)
(* Spec is a whole run of main() over NumStocks tickers, the provider      *)
(* answering from a small set of frames.  SpecTicker is the loop body      *)
(* alone, over every history of up to MaxBars bars at the sample           *)
(* timestamps.  SpecRank is the ranking alone, over the records of up to   *)
(* MaxRecords tickers, enough for head(5) to cut.                          *)
(***************************************************************************)
EXTENDS Integers, Sequences, FiniteSets, TLC

VARIABLES
    utcoffset,     \* seconds US/Eastern is behind UTC on the run date
    env,           \* the required environment variables that are set
    pc,            \* position of the run
    i,             \* index in STOCKS of the ticker of the current iteration
    hist,          \* what stock.history() gave for that ticker
    morning_data,  \* the bars of hist the window filter kept
    stock_data,    \* the records collected so far (list of dicts)
    df,            \* the DataFrame get_stock_changes returned
    console,       \* what was printed, in order
    smtp,          \* the SMTP operations started, in order
    exitCode,      \* -1 while running, then the process exit status
    enough         \* history: tickers whose fetched history had >= 2 filtered bars

vars == <<utcoffset, env, pc, i, hist, morning_data, stock_data, df,
          console, smtp, exitCode, enough>>

---------------------------------------------------------------------------
(* Bounds of the model *)

NumStocks == 3      \* tickers of STOCKS the loop walks (20 in the source)
MaxBars == 3        \* bars in one fetched history, in SpecTicker
MaxPrice == 1       \* prices of those bars are 0..MaxPrice
MaxRecords == 6     \* records handed to the ranking, in SpecRank

(* Program constants *)

TopN == 5           \* head(5)
T0930 == 34200      \* time(9, 30)
T1000 == 36000      \* time(10, 0)
LmtOffset == 17760  \* utcoffset of pytz's US/Eastern when attached by replace(): LMT-4:56
EstOffset == 18000  \* US/Eastern in winter, UTC-5
EdtOffset == 14400  \* US/Eastern in summer, UTC-4

RequiredEnv == {"SENDER_EMAIL", "SENDER_PASSWORD", "RECIPIENT_EMAIL"}

\* the tickers, named by their position in the list
STOCKS == [k \in 1..NumStocks |-> k]

(* Sample timestamps (Eastern wall clock, seconds of the run date) *)
Times == {T0930 - 1, T0930, T1000, T1000 + 1, T1000 + 1800, T1000 + 2700}

Prices == 0..MaxPrice

Bar == [t : Times, Open : Prices, Close : Prices]

Abs(x) == IF x < 0 THEN -x ELSE x

\* one print() call
Line(m) == [msg |-> m, ticker |-> 0]

Min(a, b) == IF a < b THEN a ELSE b

---------------------------------------------------------------------------
(* The histories the provider can return: bars in increasing time order *)

RECURSIVE Ascending(_)
\* the numbers of S in increasing order
Ascending(S) ==
    IF S = {} THEN <<>>
    ELSE LET m == CHOOSE k \in S : \A j \in S : k <= j
         IN <<m>> \o Ascending(S \ {m})

\* the frame with one bar at each timestamp of T, opening at o[t] and closing at c[t]
Frame(T, o, c) ==
    [k \in 1..Cardinality(T) |->
        [t |-> Ascending(T)[k], Open |-> o[Ascending(T)[k]], Close |-> c[Ascending(T)[k]]]]

NoHist == [kind |-> "none", bars |-> <<>>]

\* (Open of the first bar, Close of the last bar): -100%, +50%, inf, NaN
RankSamples == {<<1, 0>>, <<2, 3>>, <<0, 1>>, <<0, 0>>}

\* the same, for the frames of a whole run: -100%, inf
RunSamples == {<<1, 0>>, <<0, 1>>}

\* two flat bars a minute apart, the first stamped t, priced o and c
Window(t, o, c) ==
    <<[t |-> t, Open |-> o, Close |-> o], [t |-> t + 60, Open |-> c, Close |-> c]>>

\* the answers of the provider in a whole run: an exception, a tz-naive
\* frame, an empty frame, a lone bar, and two-bar frames at 09:30 and at
\* 10:30 Eastern with the sample prices
RunResults ==
    {[kind |-> "raise", bars |-> <<>>],
     [kind |-> "naive", bars |-> <<[t |-> T0930, Open |-> 1, Close |-> 1]>>],
     [kind |-> "ok", bars |-> <<>>],
     [kind |-> "ok", bars |-> <<[t |-> T0930, Open |-> 1, Close |-> 1]>>]}
    \cup {[kind |-> "ok", bars |-> Window(t, p[1], p[2])] :
            t \in {T0930, T1000 + 1800}, p \in RunSamples}

---------------------------------------------------------------------------
(* The window *)

\* datetime.combine(today, time(9, 30)).replace(tzinfo=est), as an instant
market_open == T0930 + LmtOffset

\* datetime.combine(today, time(10, 0)).replace(tzinfo=est), as an instant
ten_am == T1000 + LmtOffset

\* the instant of a bar stamped t on the Eastern wall clock
Instant(t) == t + utcoffset

\* (hist.index >= market_open) & (hist.index <= ten_am)
InWindow(b) == Instant(b.t) >= market_open /\ Instant(b.t) <= ten_am

Filter(bars) == SelectSeq(bars, InWindow)

---------------------------------------------------------------------------
(* The record of one ticker *)

\* ((ten_am_price - open_price) / open_price) * 100 on float64
PctChange(open_price, ten_am_price) ==
    [num |-> (ten_am_price - open_price) * 100, den |-> open_price]

\* variant: the Close of the first bar taken for its Open
FirstOpenTakesClose(md) == md[1].Close

FirstOpen(md) == md[1].Open

LastClose(md) == md[Len(md)].Close

MakeRecord(ticker, md) ==
    [Ticker |-> ticker,
     Open |-> FirstOpen(md),
     Price10AM |-> LastClose(md),
     Change |-> LastClose(md) - FirstOpen(md),
     ChangePct |-> PctChange(FirstOpen(md), LastClose(md))]

\* variant: one bar is taken to be enough
TooFewOffByOne(md) == Len(md) < 1

\* len(morning_data) < 2
TooFew(md) == Len(md) < 2

---------------------------------------------------------------------------
(* The ranking: df['Abs_Change'] = df['Change %'].abs();                    *)
(* df.sort_values('Abs_Change', ascending=False).head(5)                    *)

IsNaN(p) == p.den = 0 /\ p.num = 0

IsInf(p) == p.den = 0 /\ p.num # 0

\* variant: the keys compared with their sign, .abs() left out
SignedLess(p, q) ==
    IF IsNaN(p) \/ IsNaN(q) THEN FALSE
    ELSE IF IsInf(q) THEN ~IsInf(p)
    ELSE IF IsInf(p) THEN FALSE
    ELSE p.num * q.den < q.num * p.den

\* |p| < |q| as float64 compares it: false when either side is NaN
AbsLess(p, q) ==
    IF IsNaN(p) \/ IsNaN(q) THEN FALSE
    ELSE IF IsInf(q) THEN ~IsInf(p)
    ELSE IF IsInf(p) THEN FALSE
    ELSE Abs(p.num) * q.den < Abs(q.num) * p.den

Key(recs, k) == recs[k].ChangePct

\* the positions of S that may come first in a descending order of the keys
Largest(recs, S) == {k \in S : \A j \in S : ~AbsLess(Key(recs, k), Key(recs, j))}

RECURSIVE DescendingOrders(_, _)
\* every arrangement of the positions S with the keys descending.  The sort
\* is sort_values' default kind, quicksort, which promises no order among
\* equal keys: which arrangement comes out depends on the numpy build.
DescendingOrders(recs, S) ==
    IF S = {} THEN {<<>>}
    ELSE UNION {{<<k>> \o rest : rest \in DescendingOrders(recs, S \ {k})} :
                k \in Largest(recs, S)}

\* nargsort: the non-NaN keys sorted, the NaN keys after them (na_position='last')
SortOrders(recs) ==
    LET nan == {k \in DOMAIN recs : IsNaN(Key(recs, k))}
    IN {o \o Ascending(nan) : o \in DescendingOrders(recs, (DOMAIN recs) \ nan)}

\* .head(5)
HeadN(s) == SubSeq(s, 1, Min(TopN, Len(s)))

Reorder(recs, o) == [k \in 1..Len(o) |-> recs[o[k]]]

\* the frames lines 60-66 can return for the collected records
RankedFrames(recs) ==
    IF recs = <<>> THEN {<<>>}
    ELSE {HeadN(Reorder(recs, o)) : o \in SortOrders(recs)}

---------------------------------------------------------------------------
(* get_stock_changes *)

Init ==
    /\ utcoffset \in {EstOffset, EdtOffset}
    /\ env \in SUBSET RequiredEnv
    /\ pc = "for"
    /\ i = 0
    /\ hist = NoHist
    /\ morning_data = <<>>
    /\ stock_data = <<>>
    /\ df = <<>>
    /\ console = <<Line("Fetching stock data...")>>
    /\ smtp = <<>>
    /\ exitCode = -1
    /\ enough = {}

\* for ticker in STOCKS: the next ticker.  hist and morning_data of the
\* iteration before are not read again, and the model forgets them here.
ForNext ==
    /\ pc = "for"
    /\ i < Len(STOCKS)
    /\ i' = i + 1
    /\ pc' = "body"
    /\ hist' = NoHist
    /\ morning_data' = <<>>
    /\ UNCHANGED <<utcoffset, env, stock_data, df, console, smtp, exitCode, enough>>

\* for ticker in STOCKS: the list is exhausted
ForExit ==
    /\ pc = "for"
    /\ i = Len(STOCKS)
    /\ pc' = "rank"
    /\ hist' = NoHist
    /\ morning_data' = <<>>
    /\ UNCHANGED <<utcoffset, env, i, stock_data, df, console, smtp, exitCode, enough>>

\* variant: the handler leaves the loop (break for continue)
HandlerBreaks ==
    /\ console' = Append(console, [msg |-> "Error processing", ticker |-> STOCKS[i]])
    /\ pc' = "rank"
    /\ UNCHANGED stock_data

\* except Exception as e: print(...); continue
Handler ==
    /\ console' = Append(console, [msg |-> "Error processing", ticker |-> STOCKS[i]])
    /\ pc' = "for"
    /\ UNCHANGED stock_data

\* the body of the loop for the ticker STOCKS[i], the provider answering h
Body(h) ==
    /\ pc = "body"
    /\ hist' = h
    /\ enough' = IF h.kind = "ok" /\ Len(Filter(h.bars)) >= 2
                 THEN enough \cup {STOCKS[i]} ELSE enough
    /\ IF h.kind = "raise"
       THEN /\ morning_data' = <<>>
            /\ Handler
       ELSE IF h.bars = <<>>
       THEN /\ morning_data' = <<>>
            /\ pc' = "for"
            /\ UNCHANGED <<stock_data, console>>
       ELSE IF h.kind = "naive"
       THEN /\ morning_data' = <<>>
            /\ Handler
       ELSE /\ morning_data' = Filter(h.bars)
            /\ pc' = "for"
            /\ IF TooFew(Filter(h.bars))
               THEN UNCHANGED <<stock_data, console>>
               ELSE /\ stock_data' = Append(stock_data, MakeRecord(STOCKS[i], Filter(h.bars)))
                    /\ UNCHANGED console
    /\ UNCHANGED <<utcoffset, env, i, df, smtp, exitCode>>

\* lines 60-66: rank and return
Rank ==
    /\ pc = "rank"
    /\ df' \in RankedFrames(stock_data)
    /\ pc' = "returned"
    /\ UNCHANGED <<utcoffset, env, i, hist, morning_data, stock_data,
                   console, smtp, exitCode, enough>>

---------------------------------------------------------------------------
(* send_email and main *)

\* what the mail relay does with the one session send_email opens
RelayAnswers ==
    {"refuse_connect", "refuse_starttls", "refuse_login", "refuse_message", "accept"}

Op(name, ok) == [op |-> name, ok |-> ok]

\* server.login(SENDER_EMAIL, SENDER_PASSWORD) can succeed
CredentialsSet == {"SENDER_EMAIL", "SENDER_PASSWORD"} \subseteq env

\* server.send_message(msg) finds a recipient in msg['To']
RecipientSet == "RECIPIENT_EMAIL" \in env

\* the SMTP operations of the with block, in order, up to the first that raises
Session(relay) ==
    IF relay = "refuse_connect"
    THEN <<Op("connect", FALSE)>>
    ELSE IF relay = "refuse_starttls"
    THEN <<Op("connect", TRUE), Op("starttls", FALSE)>>
    ELSE IF relay = "refuse_login" \/ ~CredentialsSet
    THEN <<Op("connect", TRUE), Op("starttls", TRUE), Op("login", FALSE)>>
    ELSE IF relay = "refuse_message" \/ ~RecipientSet
    THEN <<Op("connect", TRUE), Op("starttls", TRUE), Op("login", TRUE),
           Op("send_message", FALSE)>>
    ELSE <<Op("connect", TRUE), Op("starttls", TRUE), Op("login", TRUE),
           Op("send_message", TRUE)>>

Raised(ops) == \E k \in DOMAIN ops : ~ops[k].ok

\* main, lines 157-159: the frame is empty
MainEmpty ==
    /\ pc = "returned"
    /\ df = <<>>
    /\ console' = Append(console, Line("No stock data available."))
    /\ pc' = "exit"
    /\ exitCode' = 0
    /\ UNCHANGED <<utcoffset, env, i, hist, morning_data, stock_data, df, smtp, enough>>

\* variant: main prints and sends whatever the frame holds
MainPrintUnguarded ==
    /\ pc = "returned"
    /\ console' = console \o <<Line("Top 5 Stock Movers:"), Line("table"),
                               Line("Sending email...")>>
    /\ pc' = "send_email"
    /\ UNCHANGED <<utcoffset, env, i, hist, morning_data, stock_data, df, smtp,
                   exitCode, enough>>

\* main, lines 161-164: the frame has rows
MainPrint ==
    /\ pc = "returned"
    /\ df # <<>>
    /\ console' = console \o <<Line("Top 5 Stock Movers:"), Line("table"),
                               Line("Sending email...")>>
    /\ pc' = "send_email"
    /\ UNCHANGED <<utcoffset, env, i, hist, morning_data, stock_data, df, smtp,
                   exitCode, enough>>

\* variant: the handler of send_email prints and does not raise again
SendEmailSwallows(relay) ==
    /\ pc = "send_email"
    /\ smtp' = smtp \o Session(relay)
    /\ IF Raised(Session(relay))
       THEN console' = Append(console, Line("Error sending email"))
       ELSE console' = Append(console, Line("Email sent successfully!"))
    /\ exitCode' = 0
    /\ pc' = "exit"
    /\ UNCHANGED <<utcoffset, env, i, hist, morning_data, stock_data, df, enough>>

\* send_email(stock_data), the relay answering relay; an exception that
\* leaves send_email leaves main too and ends the process with status 1
SendEmail(relay) ==
    /\ pc = "send_email"
    /\ smtp' = smtp \o Session(relay)
    /\ IF Raised(Session(relay))
       THEN /\ console' = Append(console, Line("Error sending email"))
            /\ exitCode' = 1
       ELSE /\ console' = Append(console, Line("Email sent successfully!"))
            /\ exitCode' = 0
    /\ pc' = "exit"
    /\ UNCHANGED <<utcoffset, env, i, hist, morning_data, stock_data, df, enough>>

Next ==
    \/ ForNext
    \/ \E h \in RunResults : Body(h)
    \/ ForExit
    \/ Rank
    \/ MainEmpty
    \/ MainPrint
    \/ \E relay \in RelayAnswers : SendEmail(relay)

Spec == Init /\ [][Next]_vars

---------------------------------------------------------------------------
(* One iteration on its own: the loop body for the second ticker, one     *)
(* record collected before it, the provider answering with any history of *)
(* up to MaxBars bars at the sample timestamps.                           *)

InitTicker ==
    /\ utcoffset \in {EstOffset, EdtOffset}
    /\ env = RequiredEnv
    /\ pc = "body"
    /\ i = 2
    /\ hist = NoHist
    /\ morning_data = <<>>
    /\ stock_data = <<MakeRecord(1, Window(T0930, 1, 0))>>
    /\ df = <<>>
    /\ console = <<Line("Fetching stock data...")>>
    /\ smtp = <<>>
    /\ exitCode = -1
    /\ enough = {1}

\* stock.history() raises
TickerRaises == Body([kind |-> "raise", bars |-> <<>>])

\* stock.history() returns a frame with a tz-naive index
TickerNaive ==
    /\ pc = "body"
    /\ \E b \in Bar : Body([kind |-> "naive", bars |-> <<b>>])

\* stock.history() returns a well-formed frame, empty or not
TickerFrame ==
    /\ pc = "body"
    /\ \E T \in SUBSET Times :
          /\ Cardinality(T) <= MaxBars
          /\ \E o \in [T -> Prices], c \in [T -> Prices] :
                Body([kind |-> "ok", bars |-> Frame(T, o, c)])

NextTicker == TickerRaises \/ TickerNaive \/ TickerFrame

SpecTicker == InitTicker /\ [][NextTicker]_vars

---------------------------------------------------------------------------
(* The ranking on its own: lines 60-66 applied to the records of up to     *)
(* MaxRecords tickers, each with a two-bar window of sample prices.        *)

\* the records of the tickers 1..Len(f), ticker k with the sample prices f[k]
RankInput(f) == [k \in DOMAIN f |-> MakeRecord(k, Window(T0930, f[k][1], f[k][2]))]

InitRank ==
    /\ utcoffset = EstOffset
    /\ env = RequiredEnv
    /\ pc = "rank"
    /\ i = NumStocks
    /\ hist = NoHist
    /\ morning_data = <<>>
    /\ \E n \in 0..MaxRecords : \E f \in [1..n -> RankSamples] :
          stock_data = RankInput(f)
    /\ df = <<>>
    /\ console = <<Line("Fetching stock data...")>>
    /\ smtp = <<>>
    /\ exitCode = -1
    /\ enough = {stock_data[k].Ticker : k \in DOMAIN stock_data}

NextRank == Rank

SpecRank == InitRank /\ [][NextRank]_vars

---------------------------------------------------------------------------
(* Vocabulary of the properties *)

Range(seq) == {seq[k] : k \in DOMAIN seq}

HasRecord(t) == \E k \in DOMAIN stock_data : stock_data[k].Ticker = t

ErrorPrinted(t) == [msg |-> "Error processing", ticker |-> t] \in Range(console)

Printed(m) == Line(m) \in Range(console)

\* the loop body has just finished for ticker i, the provider having
\* returned a well-formed frame
BodyDone == pc = "for" /\ i >= 1 /\ hist.kind = "ok"

\* the body has just finished for ticker i with an exception
BodyRaised == pc = "for" /\ i >= 1 /\ hist.kind \in {"raise", "naive"}

\* positions of the bars of the fetched history that lie between
\* market_open and ten_am
WindowIdx == {k \in DOMAIN hist.bars : InWindow(hist.bars[k])}

FirstIdx == CHOOSE k \in WindowIdx : \A j \in WindowIdx : k <= j

LastIdx == CHOOSE k \in WindowIdx : \A j \in WindowIdx : k >= j

\* 09:30:00 <= t <= 10:00:00 on the Eastern wall clock of the run date
EasternWindow(t) == T0930 <= t /\ t <= T1000

---------------------------------------------------------------------------
(* C1: an exception raised while one ticker is processed does not leave   *)
(* the loop: the step that raises leaves the collected records as they    *)
(* were, adds no record for that ticker, prints the error, does not end   *)
(* the run, and returns to the for statement with the same index, from    *)
(* which the remaining tickers are taken; the loop is left only after the *)
(* last ticker of STOCKS.                                                  *)
C1_ExceptionContained ==
    [][/\ (pc = "body" /\ hist'.kind \in {"raise", "naive"})
            => /\ stock_data' = stock_data
               /\ ~HasRecord(i)'
               /\ ErrorPrinted(i)'
               /\ pc' = "for"
               /\ i' = i
               /\ exitCode' = -1
       /\ (pc = "for" /\ pc' # "body") => (pc' = "rank" /\ i = NumStocks)
       /\ (pc = "for" /\ pc' = "body") => (i' = i + 1 /\ stock_data' = stock_data)
      ]_vars

\* the second ticker raised; the record of the first is still there, and
\* the third ticker was processed and has its record
C1_Witness ==
    /\ HasRecord(1)
    /\ ErrorPrinted(2)
    /\ ~HasRecord(2)
    /\ HasRecord(3)
    /\ Len(stock_data) = 2
    /\ pc = "for"

C5_WindowInclusiveEastern ==
    BodyDone =>
        \A k \in DOMAIN hist.bars :
            LET b == hist.bars[k]
            IN /\ b.t \in {T0930, T1000} => b \in Range(morning_data)
               /\ b.t \in {T0930 - 1, T1000 + 1} => b \notin Range(morning_data)

(* C9: a ticker whose first bar in the window has Open = 0 is a failed    *)
(* ticker: the division by zero is caught, and it gets no record.         *)
C9_ZeroOpenSkipped ==
    (BodyDone /\ Cardinality(WindowIdx) >= 2 /\ hist.bars[FirstIdx].Open = 0) =>
        (~HasRecord(i) /\ ErrorPrinted(i))


---------------------------------------------------------------------------
(* Vocabulary of the delivery properties *)

Count(seq, name) == Cardinality({k \in DOMAIN seq : seq[k].op = name})

\* position of the first print of m, 0 when it was never printed
PrintedAt(m) ==
    IF Printed(m)
    THEN CHOOSE k \in DOMAIN console :
            /\ console[k] = Line(m)
            /\ \A j \in DOMAIN console : console[j] = Line(m) => k <= j
    ELSE 0

(* C6: in a run where no ticker produced a record, send_email is never    *)
(* entered and no SMTP operation is started; the run prints the notice,   *)
(* prints no table and ends with status 0.                                *)
C6_EmptyReportNoEmail ==
    (stock_data = <<>> /\ pc \in {"rank", "returned", "send_email", "exit"}) =>
        /\ df = <<>>
        /\ smtp = <<>>
        /\ pc # "send_email"
        /\ ~Printed("Sending email...")
        /\ pc = "exit" =>
              /\ exitCode = 0
              /\ Printed("No stock data available.")
              /\ ~Printed("table")

\* every ticker was fetched and gave nothing, and the run has ended
C6_Witness ==
    /\ pc = "exit"
    /\ i = NumStocks
    /\ stock_data = <<>>
    /\ exitCode = 0
    /\ Printed("No stock data available.")

(* C7: in a run with a non-empty report whose mail delivery fails at the  *)
(* connect, the TLS upgrade, the login or the send, the failure is        *)
(* printed and the run ends with a non-zero status; one SMTP session was  *)
(* opened and no more, and the table was printed before it.               *)
C7_DeliveryFailureIsFatal ==
    /\ smtp # <<>> => (df # <<>> /\ Printed("table") /\ pc = "exit")
    /\ (pc = "exit" /\ Raised(smtp)) =>
          /\ exitCode = 1
          /\ Printed("Error sending email")
          /\ ~Printed("Email sent successfully!")
          /\ Count(smtp, "connect") = 1
          /\ \A k \in DOMAIN smtp : ~smtp[k].ok => k = Len(smtp)
          /\ PrintedAt("table") > 0
          /\ PrintedAt("table") < PrintedAt("Error sending email")

\* every variable is set, and the relay refuses the login
C7_Witness ==
    /\ pc = "exit"
    /\ env = RequiredEnv
    /\ df # <<>>
    /\ smtp = <<Op("connect", TRUE), Op("starttls", TRUE), Op("login", FALSE)>>
    /\ exitCode = 1

(* C8: with a required variable unset (SENDER_EMAIL, SENDER_PASSWORD or   *)
(* RECIPIENT_EMAIL) the run fails with a configuration error before any   *)
(* SMTP operation is started.                                             *)
C8_ConfigFailFast ==
    env # RequiredEnv =>
        /\ smtp = <<>>
        /\ ~Printed("Error sending email")

---------------------------------------------------------------------------
(* Vocabulary of the ranking properties *)

\* |p| > |q| for two quotients that are numbers (infinite included)
Exceeds(p, q) ==
    /\ ~IsNaN(p)
    /\ ~IsNaN(q)
    /\ IF p.den = 0 THEN q.den # 0
       ELSE q.den # 0 /\ Abs(p.num) * Abs(q.den) > Abs(q.num) * Abs(p.den)

\* |p| = |q| for two finite quotients
Ties(p, q) == p.den # 0 /\ q.den # 0 /\ ~Exceeds(p, q) /\ ~Exceeds(q, p)

LeftOut == Range(stock_data) \ Range(df)

(* C4: the returned frame has min(5, number of records) rows, each a      *)
(* collected record and none twice, in descending order of |Change %|,    *)
(* and no record left out has a larger |Change %| than a record kept; a   *)
(* NaN |Change %| ranks after every number.                               *)
C4_TopFiveByMagnitude ==
    pc = "returned" =>
        /\ Len(df) = Min(5, Len(stock_data))
        /\ Range(df) \subseteq Range(stock_data)
        /\ Cardinality(Range(df)) = Len(df)
        /\ \A j, k \in DOMAIN df :
              j < k => /\ ~Exceeds(df[k].ChangePct, df[j].ChangePct)
                       /\ IsNaN(df[j].ChangePct) => IsNaN(df[k].ChangePct)
        /\ \A r \in LeftOut : \A d \in Range(df) :
              /\ ~Exceeds(r.ChangePct, d.ChangePct)
              /\ IsNaN(d.ChangePct) => IsNaN(r.ChangePct)

\* more records than five, five kept; the first record collected is the
\* one left out, a rise smaller than every |Change %| kept, falls among them
C4_Witness ==
    /\ pc = "returned"
    /\ Len(stock_data) > TopN
    /\ Len(df) = TopN
    /\ stock_data[1] \in LeftOut
    /\ stock_data[1].Change > 0
    /\ \E d \in Range(df) : d.Change < 0
    /\ \A r \in LeftOut : \A d \in Range(df) : Exceeds(d.ChangePct, r.ChangePct)

(* C10: records with equal (finite) |Change %| keep the order of their tickers in *)
(* STOCKS, in the frame and at the cut to five: of two such records the   *)
(* one earlier in STOCKS comes first, and is the one kept when only one   *)
(* is.                                                                    *)
C10_TiesKeepStocksOrder ==
    pc = "returned" =>
        /\ \A j, k \in DOMAIN df :
              (j < k /\ Ties(df[j].ChangePct, df[k].ChangePct))
                  => df[j].Ticker < df[k].Ticker
        /\ \A r \in LeftOut : \A d \in Range(df) :
              Ties(r.ChangePct, d.ChangePct) => d.Ticker < r.Ticker

===========================================================================
